---- MODULE Spec2Model ----
(***************************************************************************)
(* The research handler of ai-research-agent: src/research.py and its      *)
(* near copy src/netlify/functions/research.py.  One invocation of         *)
(* handler(event, context) is a walk  start -> validate -> call -> unwrap  *)
(* -> cite -> done,  with "except" standing for the except clauses.        *)
(*                                                                         *)
(* Python values are tagged records of one shape [t, c, n, s, items]:      *)
(*   t      the type: "None" "bool" "int" "float" "str" "list" "dict"      *)
(*          "exc"                                                          *)
(*   c      the class name of an exception                                 *)
(*   n      the number of an int, 1/0 of a bool                            *)
(*   s      the text of a str, of str(e) of an exception                   *)
(*   items  the elements of a list, the <<key, value>> pairs of a dict in  *)
(*          insertion order                                                *)
(* A text is the sequence of its lexical tokens, records of one shape      *)
(* [k, c, n, toks]: punctuation, the literals null/true/false, the         *)
(* literal NaN, a number, a string literal (toks: the tokens of its        *)
(* decoded content), a blank, and any other run of characters ("word").    *)
(***************************************************************************)
EXTENDS Integers, Sequences, FiniteSets, TLC

(* ------------------------------ bounds -------------------------------- *)
\* longest groundingAttributions list the upstream sends
MaxAttributions == 2

(* ------------------------------ tokens -------------------------------- *)
Tok(k, c, n, toks) == [k |-> k, c |-> c, n |-> n, toks |-> toks]
P(c) == Tok("punct", c, 0, <<>>)
Lit(c) == Tok("lit", c, 0, <<>>)
NaNTok == Tok("nan", "NaN", 0, <<>>)
NumTok(n) == Tok("num", "", n, <<>>)
StrTok(toks) == Tok("string", "", 0, toks)
Word(c) == Tok("word", c, 0, <<>>)
Ws == Tok("ws", " ", 0, <<>>)

\* the text of a plain (non-JSON) run of characters
Text(c) == <<Word(c)>>

(* --------------------------- Python values ---------------------------- *)
Val(t, c, n, s, items) == [t |-> t, c |-> c, n |-> n, s |-> s, items |-> items]
None == Val("None", "", 0, <<>>, <<>>)
True == Val("bool", "", 1, <<>>, <<>>)
False == Val("bool", "", 0, <<>>, <<>>)
Int_(n) == Val("int", "", n, <<>>, <<>>)
NaN == Val("float", "nan", 0, <<>>, <<>>)
Str(toks) == Val("str", "", 0, toks, <<>>)
S(c) == Str(Text(c))
List(xs) == Val("list", "", 0, <<>>, xs)
Dict(pairs) == Val("dict", "", 0, <<>>, pairs)
KV(key, v) == [k |-> Text(key), v |-> v]
Exc(class, msg) == Val("exc", class, 0, msg, <<>>)

IsExc(v) == v.t = "exc"

\* bool(v): None, False, 0, "", [] and {} are falsy
Truthy(v) ==
    CASE v.t = "None" -> FALSE
      [] v.t = "bool" -> v.n = 1
      [] v.t = "int" -> v.n # 0
      [] v.t = "float" -> TRUE
      [] v.t = "str" -> v.s # <<>>
      [] v.t \in {"list", "dict"} -> v.items # <<>>
      [] OTHER -> TRUE

TypeName(v) ==
    CASE v.t = "None" -> "NoneType"
      [] OTHER -> v.t

HasKey(d, key) == \E i \in 1..Len(d.items) : d.items[i].k = Text(key)

Lookup(d, key) == d.items[CHOOSE i \in 1..Len(d.items) : d.items[i].k = Text(key)].v

AttributeError(v) ==
    Exc("AttributeError", <<Word(TypeName(v)), Word(" object has no attribute 'get'")>>)

\* v.get(key, default): only a dict has .get; an exception already raised
\* while evaluating v passes through
Get(v, key, default) ==
    IF IsExc(v) THEN v
    ELSE IF v.t # "dict" THEN AttributeError(v)
    ELSE IF HasKey(v, key) THEN Lookup(v, key)
    ELSE default

\* v[0]
Index0(v) ==
    IF IsExc(v) THEN v
    ELSE CASE v.t = "list" ->
                IF v.items = <<>> THEN Exc("IndexError", Text("list index out of range"))
                ELSE v.items[1]
           [] v.t = "str" ->
                IF v.s = <<>> THEN Exc("IndexError", Text("string index out of range"))
                ELSE Str(<<v.s[1]>>)
           [] v.t = "dict" -> Exc("KeyError", Text("0"))
           [] OTHER ->
                Exc("TypeError", <<Word(TypeName(v)), Word(" object is not subscriptable")>>)

\* v[key] of a dict that holds key
Item(v, key) ==
    IF IsExc(v) THEN v
    ELSE IF v.t = "dict" /\ HasKey(v, key) THEN Lookup(v, key)
    ELSE IF v.t = "dict" THEN Exc("KeyError", Text(key))
    ELSE Exc("TypeError", <<Word(TypeName(v)), Word(" object is not subscriptable")>>)

(* ------------------------------ json ---------------------------------- *)
NoWs(toks) == SelectSeq(toks, LAMBDA x : x.k # "ws")

Fail == [ok |-> FALSE, v |-> None, next |-> 0]
Done(v, next) == [ok |-> TRUE, v |-> v, next |-> next]

\* dict[key] = v: a repeated key keeps its place and takes the later value
SetItem(pairs, key, v) ==
    IF \E i \in 1..Len(pairs) : pairs[i].k = key
    THEN [i \in 1..Len(pairs) |-> IF pairs[i].k = key THEN [k |-> key, v |-> v] ELSE pairs[i]]
    ELSE Append(pairs, [k |-> key, v |-> v])

RECURSIVE ParseValue(_, _, _)
RECURSIVE ParseElems(_, _, _, _)
RECURSIVE ParseMembers(_, _, _, _)

\* one JSON value of toks from position i; strict refuses the literals
\* NaN/Infinity, which the json module reads by default
ParseValue(toks, i, strict) ==
    IF i > Len(toks) THEN Fail
    ELSE LET tok == toks[i] IN
         CASE tok.k = "lit" ->
                Done(CASE tok.c = "null" -> None [] tok.c = "true" -> True [] OTHER -> False, i + 1)
           [] tok.k = "nan" -> IF strict THEN Fail ELSE Done(NaN, i + 1)
           [] tok.k = "num" -> Done(Int_(tok.n), i + 1)
           [] tok.k = "string" -> Done(Str(tok.toks), i + 1)
           [] tok.k = "punct" /\ tok.c = "[" ->
                IF i + 1 <= Len(toks) /\ toks[i + 1] = P("]")
                THEN Done(List(<<>>), i + 2)
                ELSE ParseElems(toks, i + 1, <<>>, strict)
           [] tok.k = "punct" /\ tok.c = "{" ->
                IF i + 1 <= Len(toks) /\ toks[i + 1] = P("}")
                THEN Done(Dict(<<>>), i + 2)
                ELSE ParseMembers(toks, i + 1, <<>>, strict)
           [] OTHER -> Fail

ParseElems(toks, i, acc, strict) ==
    LET r == ParseValue(toks, i, strict) IN
    IF ~r.ok \/ r.next > Len(toks) THEN Fail
    ELSE IF toks[r.next] = P("]") THEN Done(List(Append(acc, r.v)), r.next + 1)
    ELSE IF toks[r.next] = P(",") THEN ParseElems(toks, r.next + 1, Append(acc, r.v), strict)
    ELSE Fail

ParseMembers(toks, i, acc, strict) ==
    IF i + 1 > Len(toks) \/ toks[i].k # "string" \/ toks[i + 1] # P(":") THEN Fail
    ELSE LET r == ParseValue(toks, i + 2, strict)
             pairs == SetItem(acc, toks[i].toks, r.v) IN
         IF ~r.ok \/ r.next > Len(toks) THEN Fail
         ELSE IF toks[r.next] = P("}") THEN Done(Dict(pairs), r.next + 1)
         ELSE IF toks[r.next] = P(",") THEN ParseMembers(toks, r.next + 1, pairs, strict)
         ELSE Fail

\* the whole text is one JSON value, blanks around tokens aside
Decode(text, strict) ==
    LET toks == NoWs(text)
        r == ParseValue(toks, 1, strict) IN
    IF r.ok /\ r.next = Len(toks) + 1 THEN r ELSE Fail

\* RFC 8259 validity of a text
ValidJSON(text) == Decode(text, TRUE).ok

JSONDecodeError == Exc("JSONDecodeError", Text("Expecting value: line 1 column 1 (char 0)"))

\* json.loads(v)
json_loads(v) ==
    IF IsExc(v) THEN v
    ELSE IF v.t # "str"
    THEN Exc("TypeError", <<Word("the JSON object must be str, bytes or bytearray, not "),
                            Word(TypeName(v))>>)
    ELSE LET r == Decode(v.s, FALSE) IN IF r.ok THEN r.v ELSE JSONDecodeError

RECURSIVE Encode(_)
RECURSIVE EncodeElems(_, _)
RECURSIVE EncodeMembers(_, _)

\* json.dumps(v) with the default separators ", " and ": " and allow_nan
Encode(v) ==
    CASE v.t = "None" -> <<Lit("null")>>
      [] v.t = "bool" -> <<Lit(IF v.n = 1 THEN "true" ELSE "false")>>
      [] v.t = "int" -> <<NumTok(v.n)>>
      [] v.t = "float" -> <<NaNTok>>
      [] v.t = "str" -> <<StrTok(v.s)>>
      [] v.t = "list" -> <<P("[")>> \o EncodeElems(v.items, 1) \o <<P("]")>>
      [] v.t = "dict" -> <<P("{")>> \o EncodeMembers(v.items, 1) \o <<P("}")>>

EncodeElems(xs, i) ==
    IF i > Len(xs) THEN <<>>
    ELSE (IF i > 1 THEN <<P(","), Ws>> ELSE <<>>) \o Encode(xs[i]) \o EncodeElems(xs, i + 1)

EncodeMembers(pairs, i) ==
    IF i > Len(pairs) THEN <<>>
    ELSE (IF i > 1 THEN <<P(","), Ws>> ELSE <<>>)
         \o <<StrTok(pairs[i].k), P(":"), Ws>> \o Encode(pairs[i].v)
         \o EncodeMembers(pairs, i + 1)

json_dumps(v) == Encode(v)


(* --------------------------- configuration ---------------------------- *)
\* timeout=30 of requests.post
TIMEOUT == 30

\* the two copies of the handler
Impls == {"research", "netlify"}

(* ----------------------------- responses ------------------------------ *)
Response(status, headers, body) ==
    [statusCode |-> status, headers |-> headers, body |-> json_dumps(body)]

\* {"statusCode": status, "body": json.dumps({"error": msg})}
Error(status, msg) == Response(status, FALSE, Dict(<<KV("error", Str(msg))>>))

\* ... json.dumps({"error": f"{prefix}{str(e)}", "details": str(e)})
ErrorDetails(status, prefix, e) ==
    Response(status, FALSE,
             Dict(<<KV("error", Str(<<Word(prefix)>> \o e.s)), KV("details", Str(e.s))>>))

NoResponse == [statusCode |-> 0, headers |-> FALSE, body |-> <<>>]

MissingKeyMsg(i) ==
    IF i = "research"
    THEN Text("Server API Key is missing. Set GEMINI_API_KEY environment variable.")
    ELSE Text("Server API Key is missing. Set GEMINI_API_KEY environment variable in Netlify.")
MissingPromptMsg == Text("Missing prompt in request data.")
EmptyCandidateMsg == Text("Gemini API returned an empty candidate list.")
NoContentMsg == Text("Gemini API failed to return structured JSON content.")
TimeoutMsg == Text("The AI research request timed out.")
TransportPrefix == "Failed to communicate with the Gemini API: "
ParseFailMsg ==
    Text("Failed to parse JSON response from AI model. Check prompt/schema alignment.")
UnexpectedPrefix == "An unexpected server error occurred: "
NoTitle == S("No Title Available")

(* ------------------------- steps of the handler ----------------------- *)
\* "if not GEMINI_API_KEY"
KeyMissingIsNone(key) == key.t = "None"
KeyMissing(key) == ~Truthy(key)

\* data = json.loads(event['body']); user_prompt = data.get('prompt')
UserPrompt(ev) == Get(json_loads(Item(ev, "body")), "prompt", None)

\* the exception classes an exception of class c is an instance of
Bases(c) ==
    CASE c = "Timeout" -> {"Timeout", "RequestException", "Exception"}
      [] c \in {"ConnectionError", "HTTPError"} -> {c, "RequestException", "Exception"}
      [] c = "requests.JSONDecodeError" ->
            {c, "RequestException", "JSONDecodeError", "Exception"}
      [] OTHER -> {c, "Exception"}

\* response.json(): the class of the exception for a body that is no JSON
\* depends on the installed requests (requests.exceptions.JSONDecodeError
\* from 2.27 on, json.JSONDecodeError before)
ResponseJson(resp, class) ==
    LET r == Decode(resp.body, FALSE) IN
    IF r.ok THEN r.v ELSE Exc(class, Text("Expecting value: line 1 column 1 (char 0)"))

\* result.get('candidates', [{}])[0]
CandidatesDefault == List(<<Dict(<<>>)>>)
FirstCandidate(result) == Index0(Get(result, "candidates", CandidatesDefault))

\* candidate.get('content', {}).get('parts', [{}])[0].get('text')
JsonText(candidate) ==
    Get(Index0(Get(Get(candidate, "content", Dict(<<>>)), "parts", List(<<Dict(<<>>)>>))),
        "text", None)

\* candidate.get('groundingMetadata', {})
GroundingMetadataItem(candidate) == Item(candidate, "groundingMetadata")
GroundingMetadata(candidate) == Get(candidate, "groundingMetadata", Dict(<<>>))

\* what "for attribution in v" visits
Iter(v) ==
    CASE v.t = "list" -> v.items
      [] v.t = "dict" -> [i \in 1..Len(v.items) |-> Str(v.items[i].k)]
      [] v.t = "str" -> [i \in 1..Len(v.s) |-> Str(<<v.s[i]>>)]

\* "if web and web.get('uri')"
Keeps(web) ==
    IF ~Truthy(web) THEN False
    ELSE LET uri == Get(web, "uri", None) IN
         IF IsExc(uri) THEN uri ELSE IF Truthy(uri) THEN True ELSE False

\* {"uri": web['uri'], "title": web.get('title', 'No Title Available')}
SourceNoDefault(web) == Dict(<<KV("uri", Item(web, "uri")), KV("title", Get(web, "title", None))>>)
Source(web) == Dict(<<KV("uri", Item(web, "uri")), KV("title", Get(web, "title", NoTitle))>>)

RECURSIVE Collect(_, _, _)
\* the loop over the attributions: the sources, or the exception that ends it
Collect(attrs, i, acc) ==
    IF i > Len(attrs) THEN List(acc)
    ELSE LET web == Get(attrs[i], "web", None)
             keep == Keeps(web) IN
         IF IsExc(web) THEN web
         ELSE IF IsExc(keep) THEN keep
         ELSE Collect(attrs, i + 1, IF keep = True THEN Append(acc, Source(web)) ELSE acc)

\* sources = [] ... the whole "Extract citations/sources" block
Sources(gm) ==
    IF ~Truthy(gm) THEN List(<<>>)
    ELSE LET attrs == Get(gm, "groundingAttributions", None) IN
         IF IsExc(attrs) THEN attrs
         ELSE IF ~Truthy(attrs) THEN List(<<>>)
         ELSE IF attrs.t \notin {"list", "dict", "str"}
         THEN Exc("TypeError", <<Word(TypeName(attrs)), Word(" object is not iterable")>>)
         ELSE Collect(Iter(attrs), 1, <<>>)

\* the except clauses of each copy, in order
Clauses(i) ==
    IF i = "research"
    THEN <<"Timeout", "RequestException", "JSONDecodeError", "Exception">>
    ELSE <<"Exception">>

\* what the clause for class c returns for exception e
HandleOk(c, e) ==
    CASE c = "Timeout" -> Error(504, TimeoutMsg)
      [] c = "RequestException" -> ErrorDetails(500, TransportPrefix, e)
      [] c = "JSONDecodeError" -> Error(500, ParseFailMsg)
      [] OTHER -> ErrorDetails(200, UnexpectedPrefix, e)
Handle(c, e) ==
    CASE c = "Timeout" -> Error(504, TimeoutMsg)
      [] c = "RequestException" -> ErrorDetails(500, TransportPrefix, e)
      [] c = "JSONDecodeError" -> Error(500, ParseFailMsg)
      [] OTHER -> ErrorDetails(500, UnexpectedPrefix, e)

\* the positions of the clauses that catch e
Catching(i, e) == {j \in 1..Len(Clauses(i)) : Clauses(i)[j] \in Bases(e.c)}

(* ------------------------------ inputs -------------------------------- *)
Body(v) == Dict(<<KV("body", v)>>)
Json(v) == Str(json_dumps(v))
Prompt(v) == Body(Json(Dict(<<KV("prompt", v)>>)))

\* os.environ.get("GEMINI_API_KEY"): unset, empty, set
Keys == {None, Str(<<>>), S("secret")}

\* the events of the hosting runtime: no event, no body, a body that is
\* empty, blank, no JSON, JSON but no object, an object without or with a
\* prompt, and a body that is no string
Events ==
    {None, Dict(<<>>), Body(None), Body(Str(<<>>)), Body(Str(<<Ws>>)), Body(S("not json")),
     Body(Str(<<P("{"), StrTok(Text("prompt")), P(":")>>)), Body(Int_(5)),
     Body(Json(List(<<Int_(1)>>))), Body(Json(Dict(<<>>))),
     Body(Json(Dict(<<KV("other", S("x"))>>))),
     Prompt(None), Prompt(Str(<<>>)), Prompt(Str(<<Ws, Ws>>)), Prompt(S("modern UI kits")),
     Prompt(Int_(7))}

Web(pairs) == Dict(<<KV("web", Dict(pairs))>>)

\* one entry of groundingAttributions: a uri and a title, no title, no web,
\* no uri, an empty uri, a null title, a null web, and two entries that are
\* not of the documented shape
Attributions ==
    {Web(<<KV("uri", S("https://a.example")), KV("title", S("A"))>>),
     Web(<<KV("uri", S("https://b.example"))>>),
     Dict(<<>>),
     Web(<<KV("title", S("C"))>>),
     Web(<<KV("uri", Str(<<>>)), KV("title", S("E"))>>),
     Web(<<KV("uri", S("https://d.example")), KV("title", None)>>),
     Dict(<<KV("web", None)>>),
     S("x"),
     Dict(<<KV("web", S("x"))>>)}

AttributionLists == UNION {[1..n -> Attributions] : n \in 0..MaxAttributions}

EmptyResearch ==
    Dict(<<KV("designPrinciples", List(<<>>)), KV("uiFrameworks", List(<<>>)),
           KV("aiApiConcepts", List(<<>>))>>)

\* the text of the first part: structured output, other JSON, the literal
\* NaN alone and inside an object, the structured output without blanks,
\* null, nested values of every type, a repeated key between blanks, and
\* texts that are no JSON
InnerTexts ==
    {Json(EmptyResearch),
     Json(Dict(<<KV("designPrinciples",
                    List(<<Dict(<<KV("name", S("Atomic Design")), KV("summary", S("..."))>>)>>))>>)),
     Json(Int_(5)), Json(NaN), Json(Dict(<<KV("uiFrameworks", NaN)>>)),
     Str(NoWs(json_dumps(EmptyResearch))), Json(None),
     Json(Dict(<<KV("aiApiConcepts", List(<<True, None, Int_(0), S("x"), List(<<>>)>>)),
                 KV("designPrinciples", Dict(<<KV("name", Str(<<>>))>>))>>)),
     Str(<<Ws, P("{"), StrTok(Text("a")), P(":"), NumTok(1), P(","), Ws,
           StrTok(Text("a")), P(":"), NumTok(2), P("}"), Ws>>),
     S("Here is the research"), Str(<<P("["), NumTok(1), P(","), P("]")>>),
     Str(<<P("{"), P("}"), Word("trailing")>>)}

Parts(text) == Dict(<<KV("parts", List(<<Dict(<<KV("text", text)>>)>>))>>)

\* candidates of the documented shape
GoodCandidates ==
    {Dict(<<KV("content", Parts(t))>>) : t \in InnerTexts}
    \cup {Dict(<<KV("content", Parts(Json(EmptyResearch))), KV("groundingMetadata", gm)>>) :
            gm \in {None, Dict(<<>>), Dict(<<KV("groundingAttributions", None)>>),
                    Dict(<<KV("groundingAttributions", Int_(5))>>),
                    Dict(<<KV("groundingAttributions", Web(<<>>))>>),
                    List(<<S("x")>>)}}
    \cup {Dict(<<KV("content", Parts(t)), KV("groundingMetadata", gm)>>) :
            t \in InnerTexts,
            gm \in {Dict(<<KV("webSearchQueries", List(<<S("ui kits")>>))>>)}}
    \cup {Dict(<<KV("content", Parts(Json(EmptyResearch))),
                 KV("groundingMetadata", Dict(<<KV("groundingAttributions", List(a))>>))>>) :
            a \in AttributionLists}

\* candidates that lack the text
BadCandidates ==
    {None, Dict(<<>>), S("x"), Dict(<<KV("finishReason", S("SAFETY"))>>),
     Dict(<<KV("content", None)>>), Dict(<<KV("content", Dict(<<>>))>>),
     Dict(<<KV("content", Dict(<<KV("parts", List(<<>>))>>))>>),
     Dict(<<KV("content", Dict(<<KV("parts", List(<<Dict(<<>>)>>))>>))>>),
     Dict(<<KV("content", Parts(Str(<<>>)))>>), Dict(<<KV("content", Parts(None))>>),
     Dict(<<KV("content", Parts(Int_(5)))>>)}

\* the decoded bodies of the upstream's 2xx answers
Results ==
    {None, List(<<>>), Dict(<<>>), Dict(<<KV("candidates", List(<<>>))>>),
     Dict(<<KV("candidates", None)>>), Dict(<<KV("candidates", Dict(<<KV("a", Int_(1))>>))>>)}
    \cup {Dict(<<KV("candidates", List(<<c>>))>>) : c \in GoodCandidates \cup BadCandidates}

Outcome(kind, status, body) == [kind |-> kind, status |-> status, body |-> body]
NoOutcome == Outcome("none", 0, <<>>)

\* what requests.post meets: a timeout, a connection error, an error
\* status, and a 2xx answer whose body is empty, no JSON, or JSON
Upstream ==
    {Outcome("timeout", 0, <<>>), Outcome("connection", 0, <<>>),
     Outcome("response", 503, Text("Service Unavailable")),
     Outcome("response", 429, json_dumps(Dict(<<KV("error", S("quota"))>>))),
     Outcome("response", 200, <<>>), Outcome("response", 200, Text("<html>"))}
    \cup {Outcome("response", 200, json_dumps(r)) : r \in Results}

(* ------------------------------- state -------------------------------- *)
VARIABLES
    impl,               \* which copy of the handler is deployed
    GEMINI_API_KEY,     \* the module-level credential
    event,              \* the argument of the invocation
    pc,                 \* where the invocation is
    user_prompt,        \* locals of handler
    response,
    research_data,
    grounding_metadata,
    raised,             \* the exception on its way to the except clauses
    posted,             \* the requests.post calls of this invocation
    ret                 \* what handler returned

vars == <<impl, GEMINI_API_KEY, event, pc, user_prompt, response, research_data,
          grounding_metadata, raised, posted, ret>>

config == <<impl, GEMINI_API_KEY>>
locals == <<user_prompt, response, research_data, grounding_metadata>>

Init ==
    /\ impl \in Impls
    /\ GEMINI_API_KEY \in Keys
    /\ event = None
    /\ pc = "idle"
    /\ user_prompt = None
    /\ response = NoOutcome
    /\ research_data = None
    /\ grounding_metadata = None
    /\ raised = None
    /\ posted = <<>>
    /\ ret = NoResponse

Return(r) == pc' = "done" /\ ret' = r /\ raised' = None
Raise(e) == pc' = "except" /\ raised' = e /\ ret' = ret
Goto(l) == pc' = l /\ raised' = None /\ ret' = ret

\* the runtime calls handler(event, context)
Invoke ==
    /\ pc = "idle"
    /\ event' \in Events
    /\ Goto("start")
    /\ UNCHANGED <<config, locals, posted>>

\* 1. API Key Check
KeyCheck ==
    /\ pc = "start"
    /\ IF KeyMissing(GEMINI_API_KEY)
       THEN Return(Error(500, MissingKeyMsg(impl)))
       ELSE Goto("validate")
    /\ UNCHANGED <<config, event, locals, posted>>

\* 2. Input Validation
InputValidation ==
    /\ pc = "validate"
    /\ LET body == Get(event, "body", None)
           prompt == UserPrompt(event) IN
       IF IsExc(body) THEN Raise(body) /\ user_prompt' = user_prompt
       ELSE IF ~Truthy(body) THEN Return(Error(400, MissingPromptMsg)) /\ user_prompt' = user_prompt
       ELSE IF IsExc(prompt) THEN Raise(prompt) /\ user_prompt' = user_prompt
       ELSE Goto("call") /\ user_prompt' = prompt
    /\ UNCHANGED <<config, event, response, research_data, grounding_metadata, posted>>

\* 3. and 4. the payload, requests.post and raise_for_status
CallGeminiRetry ==
    /\ pc = "call"
    /\ \E up \in Upstream :
        /\ response' = up
        /\ posted' = IF up.kind = "response" /\ up.status < 400
                     THEN Append(posted, [text |-> user_prompt, timeout |-> TIMEOUT])
                     ELSE posted \o << [text |-> user_prompt, timeout |-> TIMEOUT],
                                      [text |-> user_prompt, timeout |-> TIMEOUT] >>
        /\ CASE up.kind = "timeout" -> Raise(Exc("Timeout", Text("Read timed out.")))
             [] up.kind = "connection" -> Raise(Exc("ConnectionError", Text("Connection refused")))
             [] up.kind = "response" /\ up.status >= 400 ->
                    Raise(Exc("HTTPError", Text("Server Error for url")))
             [] OTHER -> Goto("unwrap")
    /\ UNCHANGED <<config, event, user_prompt, research_data, grounding_metadata>>
CallGemini ==
    /\ pc = "call"
    /\ \E up \in Upstream :
        /\ response' = up
        /\ posted' = Append(posted, [text |-> user_prompt, timeout |-> TIMEOUT])
        /\ CASE up.kind = "timeout" -> Raise(Exc("Timeout", Text("Read timed out.")))
             [] up.kind = "connection" -> Raise(Exc("ConnectionError", Text("Connection refused")))
             [] up.kind = "response" /\ up.status >= 400 ->
                    Raise(Exc("HTTPError", Text("Server Error for url")))
             [] OTHER -> Goto("unwrap")
    /\ UNCHANGED <<config, event, user_prompt, research_data, grounding_metadata>>

\* 5. Extract and Process Response, up to research_data
Unwrap ==
    /\ pc = "unwrap"
    /\ \E class \in {"requests.JSONDecodeError", "JSONDecodeError"} :
        LET result == ResponseJson(response, class)
            candidate == FirstCandidate(result)
            json_text == JsonText(candidate)
            data == json_loads(json_text) IN
        IF IsExc(candidate) THEN Raise(candidate) /\ UNCHANGED <<research_data, grounding_metadata>>
        ELSE IF ~Truthy(candidate)
        THEN Return(Error(500, EmptyCandidateMsg)) /\ UNCHANGED <<research_data, grounding_metadata>>
        ELSE IF IsExc(json_text)
        THEN Raise(json_text) /\ UNCHANGED <<research_data, grounding_metadata>>
        ELSE IF ~Truthy(json_text)
        THEN /\ Return(Error(500, NoContentMsg))
             /\ grounding_metadata' = GroundingMetadata(candidate)
             /\ research_data' = research_data
        ELSE IF IsExc(data)
        THEN /\ Raise(data)
             /\ grounding_metadata' = GroundingMetadata(candidate)
             /\ research_data' = research_data
        ELSE /\ Goto("cite")
             /\ grounding_metadata' = GroundingMetadata(candidate)
             /\ research_data' = data
    /\ UNCHANGED <<config, event, user_prompt, response, posted>>

\* Extract citations/sources and 6. Return the consolidated data
ExtractSources ==
    /\ pc = "cite"
    /\ LET sources == Sources(grounding_metadata) IN
       IF IsExc(sources) THEN Raise(sources)
       ELSE Return(Response(200, TRUE,
                            Dict(<<KV("research", research_data), KV("sources", sources)>>)))
    /\ UNCHANGED <<config, event, locals, posted>>

\* the except clauses: the first one that catches the exception returns;
\* an exception none catches leaves the handler
Except ==
    /\ pc = "except"
    /\ IF Catching(impl, raised) = {}
       THEN pc' = "propagated" /\ UNCHANGED <<raised, ret>>
       ELSE LET j == CHOOSE j \in Catching(impl, raised) :
                        \A m \in Catching(impl, raised) : j <= m IN
            Return(Handle(Clauses(impl)[j], raised))
    /\ UNCHANGED <<config, event, locals, posted>>

\* the invocation is over; the next one starts from nothing but the
\* module-level configuration
Finish ==
    /\ pc \in {"done", "propagated"}
    /\ pc' = "idle"
    /\ event' = None
    /\ user_prompt' = None
    /\ response' = NoOutcome
    /\ research_data' = None
    /\ grounding_metadata' = None
    /\ raised' = None
    /\ posted' = <<>>
    /\ ret' = NoResponse
    /\ UNCHANGED config

Next ==
    \/ Invoke
    \/ KeyCheck
    \/ InputValidation
    \/ CallGemini
    \/ Unwrap
    \/ ExtractSources
    \/ Except
    \/ Finish

Spec == Init /\ [][Next]_vars

(* ------------------------ reading an invocation ----------------------- *)
KeySet == Truthy(GEMINI_API_KEY)
Returned == pc = "done"

\* the returned body as json.loads reads it, and its error message
BodyOf == Decode(ret.body, FALSE)
BodyHas(key) == BodyOf.ok /\ BodyOf.v.t = "dict" /\ HasKey(BodyOf.v, key)
ErrorMsg == IF BodyHas("error") THEN Lookup(BodyOf.v, "error").s ELSE <<>>

\* the body of the event, None when there is none
EventBody ==
    IF event.t = "dict" /\ HasKey(event, "body") THEN Lookup(event, "body") ELSE None
BodyAbsentOrEmpty == event.t = "dict" /\ (EventBody = None \/ EventBody = Str(<<>>))
BodyUnparsable == EventBody.t = "str" /\ EventBody.s # <<>> /\ ~Decode(EventBody.s, FALSE).ok
BodyIsObject ==
    EventBody.t = "str" /\ Decode(EventBody.s, FALSE).ok /\ Decode(EventBody.s, FALSE).v.t = "dict"
Data == Decode(EventBody.s, FALSE).v
\* str.strip() leaves nothing
Blank(v) == v.t = "str" /\ NoWs(v.s) = <<>>
PromptBlank == BodyIsObject /\ (~HasKey(Data, "prompt") \/ Blank(Lookup(Data, "prompt")))
PromptValid ==
    /\ BodyIsObject
    /\ HasKey(Data, "prompt")
    /\ Lookup(Data, "prompt").t = "str"
    /\ ~Blank(Lookup(Data, "prompt"))

\* the upstream's answer: a 2xx response whose body decodes
Answered == response.kind = "response" /\ response.status < 400 /\ Decode(response.body, FALSE).ok
Result == Decode(response.body, FALSE).v
HasFirstCandidate ==
    /\ Answered
    /\ Result.t = "dict"
    /\ HasKey(Result, "candidates")
    /\ Lookup(Result, "candidates").t = "list"
    /\ Lookup(Result, "candidates").items # <<>>
First == Lookup(Result, "candidates").items[1]
\* content.parts[0].text of the first candidate is a string
HasText ==
    /\ HasFirstCandidate
    /\ First.t = "dict" /\ HasKey(First, "content")
    /\ Lookup(First, "content").t = "dict" /\ HasKey(Lookup(First, "content"), "parts")
    /\ Lookup(Lookup(First, "content"), "parts").t = "list"
    /\ Lookup(Lookup(First, "content"), "parts").items # <<>>
    /\ Lookup(Lookup(First, "content"), "parts").items[1].t = "dict"
    /\ HasKey(Lookup(Lookup(First, "content"), "parts").items[1], "text")
    /\ Lookup(Lookup(Lookup(First, "content"), "parts").items[1], "text").t = "str"
InnerText == Lookup(Lookup(Lookup(First, "content"), "parts").items[1], "text")
\* groundingMetadata.groundingAttributions of the first candidate, when a list
HasAttributions ==
    /\ HasFirstCandidate
    /\ First.t = "dict" /\ HasKey(First, "groundingMetadata")
    /\ Lookup(First, "groundingMetadata").t = "dict"
    /\ HasKey(Lookup(First, "groundingMetadata"), "groundingAttributions")
    /\ Lookup(Lookup(First, "groundingMetadata"), "groundingAttributions").t = "list"
GroundingAttributions ==
    IF HasAttributions
    THEN Lookup(Lookup(First, "groundingMetadata"), "groundingAttributions").items
    ELSE <<>>

(* ------------------------------- claims ------------------------------- *)
\* C1: with the credential set, an invocation whose body is a JSON object
\* with the prompt missing, empty or blank makes no upstream call and
\* returns 400 with an error.
C1_BlankPromptRejected ==
    (KeySet /\ PromptBlank) =>
        /\ posted = <<>>
        /\ Returned => (ret.statusCode = 400 /\ BodyHas("error"))

\* C2: with the credential unset or empty every invocation, whatever the
\* event, ends at the key check with 500 and the fixed missing-key
\* message, and posts nothing.
C2_MissingKey ==
    (~KeySet /\ pc \notin {"idle", "start"}) =>
        /\ Returned
        /\ ret.statusCode = 500
        /\ ErrorMsg = MissingKeyMsg(impl)
        /\ posted = <<>>

C2_Witness == Returned /\ GEMINI_API_KEY = Str(<<>>) /\ PromptValid /\ ret.statusCode = 500

\* C3: with the credential set, a body that is absent, empty or no JSON
\* is answered 400 with an error that is not the upstream parse-failure
\* message, and nothing is posted.
C3_BadBodyIs400 ==
    (KeySet /\ (BodyAbsentOrEmpty \/ BodyUnparsable)) =>
        /\ posted = <<>>
        /\ Returned => (ret.statusCode = 400 /\ BodyHas("error") /\ ErrorMsg # ParseFailMsg)

\* C4: an upstream answer with candidates = [] is answered 500 with the
\* empty-candidate-list message.
C4_EmptyCandidates ==
    (Returned /\ KeySet /\ PromptValid /\ Answered /\ Result.t = "dict"
        /\ HasKey(Result, "candidates") /\ Lookup(Result, "candidates") = List(<<>>)) =>
        (ret.statusCode = 500 /\ ErrorMsg = EmptyCandidateMsg)

\* C5: in both copies of the handler a timeout of the one call is
\* answered 504.
C5_TimeoutIs504 ==
    (Returned /\ KeySet /\ PromptValid /\ response.kind = "timeout") => ret.statusCode = 504

\* C6: no exception leaves the handler, and what it returns has an HTTP
\* status code and a body that is valid JSON.
C6_WellFormed ==
    /\ pc # "propagated"
    /\ Returned => (ret.statusCode \in 100..599 /\ ValidJSON(ret.body))

\* C7: a returned body is an object that has either research and sources
\* and no error, under status 200, or error and neither research nor
\* sources, under another status.
C7_TwoShapes ==
    Returned =>
        /\ BodyOf.ok /\ BodyOf.v.t = "dict"
        /\ \/ /\ ret.statusCode = 200
              /\ BodyHas("research") /\ BodyHas("sources") /\ ~BodyHas("error")
           \/ /\ ret.statusCode # 200
              /\ BodyHas("error") /\ ~BodyHas("research") /\ ~BodyHas("sources")

\* an error returned after research_data was decoded
C7_Witness ==
    Returned /\ ret.statusCode = 500 /\ research_data = EmptyResearch /\ raised = None
        /\ Len(GroundingAttributions) = 2

\* the entry's web object has the key uri
UriPresent(a) ==
    /\ a.t = "dict" /\ HasKey(a, "web")
    /\ Lookup(a, "web").t = "dict" /\ HasKey(Lookup(a, "web"), "uri")
\* ... and the uri is not empty
UriNonEmpty(a) == UriPresent(a) /\ Truthy(Lookup(Lookup(a, "web"), "uri"))
\* the entry as a source: its uri, and its title or the placeholder
AsSource(a) ==
    LET web == Lookup(a, "web") IN
    Dict(<<KV("uri", Lookup(web, "uri")),
           KV("title", IF HasKey(web, "title") THEN Lookup(web, "title")
                       ELSE S("No Title Available"))>>)
AsSources(kept) == [i \in 1..Len(kept) |-> AsSource(kept[i])]
ReturnedSources == Lookup(BodyOf.v, "sources").items

\* C8 as written: on success the sources are the attributions whose web.uri
\* is present, in order, each with its uri and its title or the placeholder.
C8_PresentUri == (Returned /\ ret.statusCode = 200) => ReturnedSources = AsSources(SelectSeq(GroundingAttributions, UriPresent))

\* C8 as amended: on success the sources are the attributions whose web.uri
\* is present and not empty, in order, each with its uri and its title or
\* the placeholder for an omitted title.
C8_NonEmptyUri == (Returned /\ ret.statusCode = 200) => ReturnedSources = AsSources(SelectSeq(GroundingAttributions, UriNonEmpty))

\* one entry with a uri and no title, one without web: one source, with
\* the placeholder
C8_Witness ==
    /\ Returned /\ ret.statusCode = 200
    /\ Len(GroundingAttributions) = 2
    /\ UriNonEmpty(GroundingAttributions[1]) /\ ~UriPresent(GroundingAttributions[2])
    /\ Len(ReturnedSources) = 1
    /\ Lookup(ReturnedSources[1], "title") = S("No Title Available")

\* the input validation of the code lets the event through
PassesValidation == BodyIsObject /\ EventBody.s # <<>>

\* C9: an invocation posts at most once: once the call was made, whatever
\* its outcome, the count stays one, and at the return it is one exactly
\* when the credential is set and the input passed validation.
C9_OnePost ==
    /\ Len(posted) <= 1
    /\ response.kind # "none" => Len(posted) = 1
    /\ Returned => Len(posted) = (IF KeySet /\ PassesValidation THEN 1 ELSE 0)

\* a failed attempt that was not repeated
C9_Witness ==
    Returned /\ response.kind = "timeout" /\ Len(posted) = 1 /\ ret.statusCode \in {500, 504}

\* the messages for a failed call in src/research.py
TransportMsgs ==
    {TimeoutMsg} \cup {<<Word(TransportPrefix)>> \o Text(m) :
                          m \in {"Connection refused", "Server Error for url"}}

\* C10: in src/research.py a first-part text that is a non-empty string and
\* not valid JSON is answered 500 with a message that is none of the
\* messages for a failed call.
C10_InnerParseFailure ==
    (Returned /\ impl = "research" /\ KeySet /\ PromptValid /\ HasText
        /\ InnerText.s # <<>> /\ ~ValidJSON(InnerText.s)) =>
        (ret.statusCode = 500 /\ BodyHas("error") /\ ErrorMsg \notin TransportMsgs)

\* the first candidate has no groundingMetadata (or null), or one without
\* groundingAttributions
NoGrounding ==
    /\ HasFirstCandidate /\ First.t = "dict"
    /\ \/ ~HasKey(First, "groundingMetadata")
       \/ Lookup(First, "groundingMetadata") = None
       \/ /\ Lookup(First, "groundingMetadata").t = "dict"
          /\ ~HasKey(Lookup(First, "groundingMetadata"), "groundingAttributions")

\* the value the text encodes
R == Decode(InnerText.s, TRUE).v

\* C11: when the first candidate's text is the JSON encoding of a value R
\* and the candidate has no grounding attributions, the handler returns
\* 200 with the Content-Type header and a JSON body whose research is R
\* and whose sources is the empty list.
C11_RoundTrip ==
    (Returned /\ KeySet /\ PromptValid /\ HasText /\ ValidJSON(InnerText.s) /\ NoGrounding) =>
        /\ ret.statusCode = 200
        /\ ret.headers
        /\ LET body == Decode(ret.body, TRUE) IN
            /\ body.ok /\ body.v.t = "dict"
            /\ HasKey(body.v, "research") /\ Lookup(body.v, "research") = R
            /\ HasKey(body.v, "sources") /\ Lookup(body.v, "sources") = List(<<>>)

\* the structured text of the spec's example, written without blanks, and
\* no groundingMetadata
C11_Witness ==
    /\ Returned /\ KeySet /\ PromptValid /\ HasText /\ NoGrounding
    /\ InnerText.s = NoWs(json_dumps(EmptyResearch))
    /\ ~HasKey(First, "groundingMetadata")
    /\ ret.statusCode = 200
    /\ ret.body # InnerText.s
====
